---- MODULE Spec2Model ----
(***************************************************************************)
(* A model of csvutils/delimited.py: the Reader wrapper around csv.reader  *)
(* and the dangling-quote repair of NoMultilineQuotedReader._process.      *)
(*                                                                         *)
(* A Python str is a sequence of one-character strings.  The csv module's  *)
(* reader and writer are modelled by what CPython's _csv does for the      *)
(* dialect the code builds (doublequote, no escapechar, '\r\n' line        *)
(* terminator, QUOTE_MINIMAL or QUOTE_NONE, skipinitialspace).             *)
(***************************************************************************)
EXTENDS Integers, Sequences, FiniteSets, TLC

\* ---------------------------------------------------------------- characters
NUL == "NUL"
SP == " "
TAB == "TAB"
LF == "LF"
CR == "CR"
BSL == "BSL"
DQ == "DQ"
COMMA == ","
LETTER == "a"
DIGIT == "1"
\* the end-of-line mark csv.reader feeds its parser after the last character
EOL == "EOL"
\* Python's None (a quote_char that is not set)
None == "None"
\* Python's empty str used as a quote_char
EmptyStr == ""

\* ---------------------------------------------------------------- bounds
MaxLen == 4
MaxLines == 2
MaxHeaderLines == 1

\* ---------------------------------------------------------------- constants of the source
DEFAULT_FIELD_DELIMITER == TAB
DEFAULT_QUOTE_CHAR == DQ
DEFAULT_SKIPINITIALSPACE == TRUE
DEFAULT_QUOTING == "QUOTE_MINIMAL"

\* ---------------------------------------------------------------- str helpers
\* what str.strip() with no argument removes (within the alphabet)
Whitespace == {SP, TAB, LF, CR}

\* a replace that leaves the NULs in place
ReplaceNUL_Missing(line) == line

\* line.replace('\0', ' ')
ReplaceNUL(line) == [i \in 1..Len(line) |-> IF line[i] = NUL THEN SP ELSE line[i]]

\* sub occurs in line at index i
MatchAt(line, sub, i) ==
    /\ i + Len(sub) - 1 <= Len(line)
    /\ \A k \in 1..Len(sub) : line[i + k - 1] = sub[k]

RECURSIVE CountFrom(_, _, _)
CountFrom(line, sub, i) ==
    IF i + Len(sub) - 1 > Len(line) THEN 0
    ELSE IF MatchAt(line, sub, i) THEN 1 + CountFrom(line, sub, i + Len(sub))
    ELSE CountFrom(line, sub, i + 1)

\* line.count(sub): the non-overlapping occurrences, left to right
Count(line, sub) == CountFrom(line, sub, 1)

\* c in line
Contains(line, c) == \E i \in 1..Len(line) : line[i] = c

RECURSIVE LStrip(_)
LStrip(line) ==
    IF line # <<>> /\ Head(line) \in Whitespace THEN LStrip(Tail(line)) ELSE line

RECURSIVE RStrip(_)
RStrip(line) ==
    IF line # <<>> /\ line[Len(line)] \in Whitespace
    THEN RStrip(SubSeq(line, 1, Len(line) - 1)) ELSE line

\* line.strip()
Strip(line) == RStrip(LStrip(line))

\* ---------------------------------------------------------------- results
Ok(v) == [err |-> FALSE, val |-> v]
Raise == [err |-> TRUE, val |-> <<>>]

\* ---------------------------------------------------------------- csv.reader
\* quoting=csv.QUOTE_NONE if self.quote_char is None else DEFAULT_QUOTING
Quoting(quote) == IF quote = None THEN "QUOTE_NONE" ELSE DEFAULT_QUOTING

\* the parser of a csv.reader at the start of a record
ParseReset == [state |-> "START_RECORD", field |-> <<>>, fields |-> <<>>, err |-> FALSE]

\* the field under construction is appended to the record
SaveField(st, next) ==
    [st EXCEPT !.fields = Append(st.fields, st.field), !.field = <<>>, !.state = next]

AddChar(st, c, next) == [st EXCEPT !.field = Append(st.field, c), !.state = next]

AfterLineEnd(c) == IF c = EOL THEN "START_RECORD" ELSE "EAT_CRNL"

IsQuote(c, quote) == c = quote /\ Quoting(quote) # "QUOTE_NONE"

\* expecting a field (START_RECORD falls through to here on a normal character)
ParseStartField(st, c, delimiter, quote) ==
    IF c \in {LF, CR, EOL} THEN SaveField(st, AfterLineEnd(c))
    ELSE IF IsQuote(c, quote) THEN [st EXCEPT !.state = "IN_QUOTED_FIELD"]
    ELSE IF c = SP /\ DEFAULT_SKIPINITIALSPACE THEN [st EXCEPT !.state = "START_FIELD"]
    ELSE IF c = delimiter THEN SaveField(st, "START_FIELD")
    ELSE AddChar(st, c, "IN_FIELD")

\* one character through the parser of csv.reader
ParseChar(st, c, delimiter, quote, strict) ==
    IF st.err THEN st
    ELSE IF st.state = "START_RECORD" THEN
        IF c = EOL THEN st
        ELSE IF c \in {LF, CR} THEN [st EXCEPT !.state = "EAT_CRNL"]
        ELSE ParseStartField(st, c, delimiter, quote)
    ELSE IF st.state = "START_FIELD" THEN ParseStartField(st, c, delimiter, quote)
    ELSE IF st.state = "IN_FIELD" THEN
        IF c \in {LF, CR, EOL} THEN SaveField(st, AfterLineEnd(c))
        ELSE IF c = delimiter THEN SaveField(st, "START_FIELD")
        ELSE AddChar(st, c, "IN_FIELD")
    ELSE IF st.state = "IN_QUOTED_FIELD" THEN
        IF c = EOL THEN st
        ELSE IF IsQuote(c, quote) THEN [st EXCEPT !.state = "QUOTE_IN_QUOTED_FIELD"]
        ELSE AddChar(st, c, "IN_QUOTED_FIELD")
    ELSE IF st.state = "QUOTE_IN_QUOTED_FIELD" THEN
        IF IsQuote(c, quote) THEN AddChar(st, c, "IN_QUOTED_FIELD")
        ELSE IF c = delimiter THEN SaveField(st, "START_FIELD")
        ELSE IF c \in {LF, CR, EOL} THEN SaveField(st, AfterLineEnd(c))
        ELSE IF ~strict THEN AddChar(st, c, "IN_FIELD")
        ELSE [st EXCEPT !.err = TRUE]
    ELSE \* EAT_CRNL
        IF c \in {LF, CR} THEN st
        ELSE IF c = EOL THEN [st EXCEPT !.state = "START_RECORD"]
        ELSE [st EXCEPT !.err = TRUE]

RECURSIVE ParseChars(_, _, _, _, _, _)
ParseChars(st, line, i, delimiter, quote, strict) ==
    IF i > Len(line) THEN st
    ELSE ParseChars(ParseChar(st, line[i], delimiter, quote, strict),
                    line, i + 1, delimiter, quote, strict)

\* one line through the parser: its characters, then the end-of-line mark
ParseLine(st, line, delimiter, quote, strict) ==
    ParseChar(ParseChars(st, line, 1, delimiter, quote, strict), EOL,
              delimiter, quote, strict)

\* the input ran out inside a record: csv.Error when strict, else the
\* pending field closes the record; with nothing pending, StopIteration
EndOfInput(st, strict) ==
    IF Len(st.field) # 0 \/ st.state = "IN_QUOTED_FIELD"
    THEN IF strict THEN [kind |-> "error", fields |-> <<>>]
         ELSE [kind |-> "row", fields |-> Append(st.fields, st.field)]
    ELSE [kind |-> "stop", fields |-> <<>>]

\* next(csv.reader((line,), ...)): the record of a one-line input
ReadOneLine(line, delimiter, quote, strict) ==
    LET st == ParseLine(ParseReset, line, delimiter, quote, strict)
    IN  IF st.err THEN [kind |-> "error", fields |-> <<>>]
        ELSE IF st.state = "START_RECORD" THEN [kind |-> "row", fields |-> st.fields]
        ELSE EndOfInput(st, strict)

\* ---------------------------------------------------------------- csv.writer
NeedsQuoting(field, delimiter, quote) ==
    \E i \in 1..Len(field) : field[i] \in {delimiter, quote, CR, LF}

RECURSIVE DoubleQuotes(_, _)
DoubleQuotes(field, quote) ==
    IF field = <<>> THEN <<>>
    ELSE IF Head(field) = quote THEN <<quote, quote>> \o DoubleQuotes(Tail(field), quote)
    ELSE <<Head(field)>> \o DoubleQuotes(Tail(field), quote)

\* a writer that bookends the field without doubling the quotes inside it
WriteField_NoDoubling(field, delimiter, quote) ==
    IF NeedsQuoting(field, delimiter, quote)
    THEN <<quote>> \o field \o <<quote>>
    ELSE field

\* one field as csv.writer writes it under QUOTE_MINIMAL with doublequote
WriteField(field, delimiter, quote) ==
    IF NeedsQuoting(field, delimiter, quote)
    THEN <<quote>> \o DoubleQuotes(field, quote) \o <<quote>>
    ELSE field

RECURSIVE JoinFields(_, _, _)
JoinFields(fields, delimiter, quote) ==
    IF fields = <<>> THEN <<>>
    ELSE IF Len(fields) = 1 THEN WriteField(fields[1], delimiter, quote)
    ELSE WriteField(fields[1], delimiter, quote) \o <<delimiter>>
         \o JoinFields(Tail(fields), delimiter, quote)

\* writer.writerow(parsed_line); out.getvalue(): a lone empty field is
\* written quoted, and the dialect's line terminator '\r\n' ends the row
WriteRow(fields, delimiter, quote) ==
    (IF fields = << <<>> >> THEN <<quote, quote>>
     ELSE JoinFields(fields, delimiter, quote)) \o <<CR, LF>>

\* ---------------------------------------------------------------- _process
\* Reader._process: line.replace('\0', ' ')
Reader_process(line) == ReplaceNUL(line)

\* if not quote: the quote character is None or ''
QuoteDisabled(quote) == quote = None \/ quote = EmptyStr

\* the counting heuristic of NoMultilineQuotedReader._process on a line that
\* holds at least one quote character: TRUE when the line is returned as is
IsSafe(line, delimiter, quote) ==
    LET count == Count(line, <<quote>>)
        escape == BSL
    IN  IF ~Contains(line, escape)
        THEN Count(line, <<quote, delimiter>>) = count
        ELSE \/ Count(line, <<escape, quote>>) = count
             \/ Count(line, <<quote, delimiter>>)
                  - Count(line, <<escape, quote, delimiter>>) = count

\* the parse-and-rewrite of a line the heuristic did not pass
Normalize(line, delimiter, quote, strict) ==
    LET parsed == ReadOneLine(Strip(line), delimiter, quote, strict)
    IN  IF parsed.kind = "row" THEN Ok(WriteRow(parsed.fields, delimiter, quote))
        ELSE Raise

\* 'if quote is None' in place of 'if not quote': an empty quote character
\* reaches the fallback reader, which refuses it
NoMultilineQuotedReader_process_IsNone(line, delimiter, quote, strict) ==
    LET l == ReplaceNUL(line)
    IN  IF quote = None THEN Ok(l)
        ELSE IF quote = EmptyStr THEN Raise
        ELSE IF Count(l, <<quote>>) = 0 THEN Ok(l)
        ELSE IF IsSafe(l, delimiter, quote) THEN Ok(l)
        ELSE Normalize(l, delimiter, quote, strict)

\* every line with quoting enabled is parsed and rewritten, none passed through
NoMultilineQuotedReader_process_AlwaysNormalizes(line, delimiter, quote, strict) ==
    LET l == ReplaceNUL(line)
    IN  IF QuoteDisabled(quote) THEN Ok(l)
        ELSE Normalize(l, delimiter, quote, strict)

\* NoMultilineQuotedReader._process(line): Ok(line') or a raised csv.Error
NoMultilineQuotedReader_process(line, delimiter, quote, strict) ==
    LET l == ReplaceNUL(line)
    IN  IF QuoteDisabled(quote) THEN Ok(l)
        ELSE IF Count(l, <<quote>>) = 0 THEN Ok(l)
        ELSE IF IsSafe(l, delimiter, quote) THEN Ok(l)
        ELSE Normalize(l, delimiter, quote, strict)

\* ---------------------------------------------------------------- _convert
PyNone == [t |-> "None", v |-> <<>>]
PyStr(text) == [t |-> "str", v |-> text]
PyInt(digits) == [t |-> "int", v |-> digits]

RECURSIVE LStripSpaces(_)
LStripSpaces(text) ==
    IF text # <<>> /\ Head(text) = SP THEN LStripSpaces(Tail(text)) ELSE text

RECURSIVE RStripSpaces(_)
RStripSpaces(text) ==
    IF text # <<>> /\ text[Len(text)] = SP
    THEN RStripSpaces(SubSeq(text, 1, Len(text) - 1)) ELSE text

\* text.strip(' ')
StripSpaces(text) == RStripSpaces(LStripSpaces(text))

\* int(text) succeeds: digits, with whitespace allowed around them
IsIntLiteral(text) ==
    LET t == Strip(text)
    IN  t # <<>> /\ \A i \in 1..Len(t) : t[i] = DIGIT

\* _convert(text, new_type, new_format, raise_on_error) for the datatypes
\* 'string' and 'integer': Ok(value) or a raised ValueError
Convert(text, new_type, raise_on_error) ==
    LET stripped_text == StripSpaces(text)
    IN  IF stripped_text = <<>> THEN Ok(PyNone)
        ELSE IF new_type = "string" THEN Ok(PyStr(stripped_text))
        ELSE IF new_type = "integer" THEN
            IF IsIntLiteral(stripped_text) THEN Ok(PyInt(Strip(stripped_text)))
            ELSE IF raise_on_error THEN Raise
            ELSE Ok(PyNone)
        ELSE Ok(PyStr(stripped_text))

\* ---------------------------------------------------------------- Reader
\* self.fields: the datatypes of the configured fields
FieldTypes == <<"integer", "string">>

\* self._len_fields
LenFields == Len(FieldTypes)

Min(a, b) == IF a < b THEN a ELSE b

\* the values of a row with convert_values set: the zip with the field
\* types, then the extra fields as strings, then the right padding
ConvertRow(row, raise_on_error, pad) ==
    LET n == Min(Len(row), LenFields)
        typed == [i \in 1..n |-> Convert(row[i], FieldTypes[i], raise_on_error)]
        extra == [i \in 1..(Len(row) - n) |->
                     Convert(row[n + i], "string", raise_on_error)]
        all == typed \o extra
        padding == IF pad /\ Len(row) <= LenFields
                   THEN [i \in 1..(LenFields - n) |-> PyNone] ELSE <<>>
    IN  IF \E i \in 1..Len(all) : all[i].err THEN Raise
        ELSE Ok([i \in 1..Len(all) |-> all[i].val] \o padding)

\* the values of a row with convert_values unset
PlainRow(row, pad) ==
    [i \in 1..Len(row) |-> PyStr(row[i])]
    \o (IF pad /\ Len(row) < LenFields
        THEN [i \in 1..(LenFields - Len(row)) |-> PyStr(<<>>)] ELSE <<>>)

\* self._rows_read = None: the value of rows_read before the first _open
RowsReadUnset == -1

\* self._process of the two classes: Ok(line') or a raised csv.Error
Process(class, line, delimiter, quote, strict) ==
    IF class = "Reader" THEN Ok(Reader_process(line))
    ELSE NoMultilineQuotedReader_process(line, delimiter, quote, strict)

\* a generator that swallows the csv.Error of _process and goes on to the
\* next line
RECURSIVE ReadRecord_SkipsFailedLine(_, _, _, _, _, _, _)
ReadRecord_SkipsFailedLine(class, lines, pos, st, delimiter, quote, strict) ==
    IF pos > Len(lines)
    THEN [kind |-> EndOfInput(st, strict).kind, fields |-> EndOfInput(st, strict).fields,
          pos |-> pos, live |-> FALSE]
    ELSE LET p == Process(class, lines[pos], delimiter, quote, strict)
             st2 == ParseLine(st, p.val, delimiter, quote, strict)
         IN  IF p.err
             THEN ReadRecord_SkipsFailedLine(class, lines, pos + 1, st,
                                             delimiter, quote, strict)
             ELSE IF st2.err
             THEN [kind |-> "error", fields |-> <<>>, pos |-> pos + 1, live |-> TRUE]
             ELSE IF st2.state = "START_RECORD"
             THEN [kind |-> "row", fields |-> st2.fields, pos |-> pos + 1, live |-> TRUE]
             ELSE ReadRecord_SkipsFailedLine(class, lines, pos + 1, st2,
                                             delimiter, quote, strict)

\* next(self.reader) while the generator of processed lines is live: lines
\* are pulled from the file at pos, processed and parsed until a record ends.
\* live is FALSE once the generator has finished (end of file, or an
\* exception raised inside it by _process)
RECURSIVE ReadRecord(_, _, _, _, _, _, _)
ReadRecord(class, lines, pos, st, delimiter, quote, strict) ==
    IF pos > Len(lines)
    THEN [kind |-> EndOfInput(st, strict).kind, fields |-> EndOfInput(st, strict).fields,
          pos |-> pos, live |-> FALSE]
    ELSE LET p == Process(class, lines[pos], delimiter, quote, strict)
             st2 == ParseLine(st, p.val, delimiter, quote, strict)
         IN  IF p.err
             THEN [kind |-> "error", fields |-> <<>>, pos |-> pos + 1, live |-> FALSE]
             ELSE IF st2.err
             THEN [kind |-> "error", fields |-> <<>>, pos |-> pos + 1, live |-> TRUE]
             ELSE IF st2.state = "START_RECORD"
             THEN [kind |-> "row", fields |-> st2.fields, pos |-> pos + 1, live |-> TRUE]
             ELSE ReadRecord(class, lines, pos + 1, st2, delimiter, quote, strict)

\* next(self.reader): a finished generator yields nothing more, whatever
\* the position of the file
NextRecord(class, lines, pos, live, delimiter, quote, strict) ==
    IF live THEN ReadRecord(class, lines, pos, ParseReset, delimiter, quote, strict)
    ELSE [kind |-> "stop", fields |-> <<>>, pos |-> pos, live |-> FALSE]

\* for index in range(self.number_of_header_lines): next(self.file)
\* from position pos: the position reached, and whether StopIteration ended it
SkipHeaders(lines, pos, headers) ==
    [pos |-> Min(pos + headers, Len(lines) + 1),
     stop |-> pos + headers > Len(lines) + 1]

\* ---------------------------------------------------------------- state
VARIABLES
    line,                    \* the raw line handed to _process
    delimiter,               \* self.delimiter
    quote_char,              \* self.quote_char
    strict_delimitation,     \* self.strict_delimitation
    pc,                      \* the stage of the line: raw, repaired, split, repaired_twice
    out,                     \* _process(line)
    fields_out,              \* the field splitter's reading of out
    out2,                    \* _process(out)
    class,                   \* Reader or NoMultilineQuotedReader
    contents,                \* the lines of the file named by self.filename
    number_of_header_lines,  \* self.number_of_header_lines
    convert_values,          \* self.convert_values
    raise_convert_errors,    \* self.raise_convert_errors
    rpad,                    \* self.rpad
    file,                    \* self.file: None or the open file
    file_pos,                \* index of the next line the open file yields
    reader,                  \* self.reader: None, or the state of its line generator
    rows_read,               \* self._rows_read
    last,                    \* what the last call did: op, outcome, row returned
    returned                 \* rows returned by next() since the last open or reset

cfg == <<delimiter, quote_char, strict_delimitation>>
filter_vars == <<line, pc, out, fields_out, out2>>
reader_cfg == <<class, contents, number_of_header_lines, convert_values,
                raise_convert_errors, rpad>>
reader_vars == <<file, file_pos, reader, rows_read, last, returned>>
vars == <<cfg, filter_vars, reader_cfg, reader_vars>>

\* ---------------------------------------------------------------- inputs
Alphabet == {LETTER, COMMA, DQ, SP, BSL, NUL, TAB}

\* a line as the file yields it: no line break inside, '\n' at its end
\* unless it is the last line of a file that does not end with one
Lines ==
    { body \o term :
        body \in UNION { [1..n -> Alphabet] : n \in 0..MaxLen },
        term \in { <<>>, <<LF>> } }

Delimiters == {COMMA, DEFAULT_FIELD_DELIMITER}
QuoteChars == {DEFAULT_QUOTE_CHAR, None, EmptyStr}

NoOutcome == [op |-> "none", kind |-> "ok", row |-> <<>>]
NoResult == [err |-> FALSE, val |-> <<>>]
NoFields == [kind |-> "none", fields |-> <<>>]

FilterIdle ==
    /\ line = <<>>
    /\ pc = "idle"
    /\ out = NoResult
    /\ fields_out = NoFields
    /\ out2 = NoResult

ReaderIdle ==
    /\ class = "Reader"
    /\ contents = <<>>
    /\ number_of_header_lines = 0
    /\ convert_values = FALSE
    /\ raise_convert_errors = TRUE
    /\ rpad = FALSE
    /\ file = None
    /\ file_pos = 0
    /\ reader = None
    /\ rows_read = RowsReadUnset
    /\ last = NoOutcome
    /\ returned = 0

\* ---------------------------------------------------------------- the filter
\* a raw line and a configuration; nothing has been called yet
Init ==
    /\ line \in Lines
    /\ delimiter \in Delimiters
    /\ quote_char \in QuoteChars
    /\ strict_delimitation \in BOOLEAN
    /\ pc = "raw"
    /\ out = NoResult
    /\ fields_out = NoFields
    /\ out2 = NoResult
    /\ ReaderIdle

\* the generator of _open hands the raw line to self._process
Repair ==
    /\ pc = "raw"
    /\ out' = NoMultilineQuotedReader_process(line, delimiter, quote_char,
                                              strict_delimitation)
    /\ pc' = "repaired"
    /\ UNCHANGED <<line, fields_out, out2, cfg, reader_cfg, reader_vars>>

\* the field splitter of _open reads the line _process returned
Split ==
    /\ pc = "repaired"
    /\ ~out.err
    /\ quote_char # EmptyStr
    /\ fields_out' = ReadOneLine(out.val, delimiter, quote_char, strict_delimitation)
    /\ pc' = "split"
    /\ UNCHANGED <<line, out, out2, cfg, reader_cfg, reader_vars>>

\* _process applied to its own output
RepairAgain ==
    /\ pc = "split"
    /\ out2' = NoMultilineQuotedReader_process(out.val, delimiter, quote_char,
                                               strict_delimitation)
    /\ pc' = "repaired_twice"
    /\ UNCHANGED <<line, out, fields_out, cfg, reader_cfg, reader_vars>>

Next == Repair \/ Split \/ RepairAgain

Spec == Init /\ [][Next]_vars

\* ---------------------------------------------------------------- the Reader
\* the lines a file of the model is made of
ReaderLines ==
    { <<DIGIT, COMMA, LETTER, LF>>,      \* 1,a
      <<LETTER, DQ, LETTER, LF>>,        \* a"b   a dangling quote
      <<DQ, LETTER, DQ, LETTER, LF>>,    \* "a"b  rewritten, or refused when strict
      <<DQ, COMMA, LF>>,                 \* ",    passes as safe, opens a quoted field
      <<LF>> }                           \* an empty line

Files == UNION { [1..n -> ReaderLines] : n \in 0..MaxLines }

\* a Reader after __init__: nothing is opened before the first use
InitReader ==
    /\ class \in {"Reader", "NoMultilineQuotedReader"}
    /\ contents \in Files
    /\ number_of_header_lines \in 0..MaxHeaderLines
    /\ convert_values \in BOOLEAN
    /\ raise_convert_errors \in BOOLEAN
    /\ rpad \in BOOLEAN
    /\ delimiter = COMMA
    /\ quote_char = DEFAULT_QUOTE_CHAR
    /\ strict_delimitation \in BOOLEAN
    /\ file = None
    /\ file_pos = 0
    /\ reader = None
    /\ rows_read = RowsReadUnset
    /\ last = NoOutcome
    /\ returned = 0
    /\ FilterIdle

\* the position _open leaves the file at, and whether skipping the header
\* lines ran off the end of the file (StopIteration out of _open)
Opened == SkipHeaders(contents, 1, number_of_header_lines)

\* Reader._open: the file, the csv.reader over the generator of processed
\* lines, rows_read = 0, then the header lines are skipped
Open(op) ==
    /\ file' = "open"
    /\ reader' = "live"
    /\ rows_read' = 0
    /\ file_pos' = Opened.pos
    /\ returned' = 0
    /\ last' = [op |-> op, kind |-> IF Opened.stop THEN "stop" ELSE "ok", row |-> <<>>]

\* Reader.__iter__
Iter ==
    /\ IF file = None THEN Open("iter")
       ELSE /\ last' = [op |-> "iter", kind |-> "ok", row |-> <<>>]
            /\ UNCHANGED <<file, file_pos, reader, rows_read, returned>>
    /\ UNCHANGED <<cfg, filter_vars, reader_cfg>>

\* the values __next__ builds from a record of csv.reader
RowValues(row) ==
    IF convert_values THEN ConvertRow(row, raise_convert_errors, rpad)
    ELSE Ok(PlainRow(row, rpad))

\* what __next__ hands back for a record of csv.reader: the row, or the
\* exception that leaves it (StopIteration, csv.Error, ValueError)
Outcome(rec) ==
    IF rec.kind # "row" THEN [op |-> "next", kind |-> rec.kind, row |-> <<>>]
    ELSE IF RowValues(rec.fields).err
    THEN [op |-> "next", kind |-> "valueerror", row |-> <<>>]
    ELSE [op |-> "next", kind |-> "row", row |-> RowValues(rec.fields).val]

\* rows_read incremented as soon as csv.reader yields a record, before the
\* values are converted
ReadNext_CountsBeforeConvert(pos, live, n) ==
    LET rec == NextRecord(class, contents, pos, live, delimiter, quote_char,
                          strict_delimitation)
    IN  /\ file_pos' = rec.pos
        /\ reader' = IF rec.live THEN "live" ELSE "finished"
        /\ last' = Outcome(rec)
        /\ rows_read' = IF rec.kind = "row" THEN n + 1 ELSE n

\* the rest of __next__ once the file is open at pos with rows_read at n:
\* rows_read is incremented only after the row has been built
ReadNext(pos, live, n) ==
    LET rec == NextRecord(class, contents, pos, live, delimiter, quote_char,
                          strict_delimitation)
    IN  /\ file_pos' = rec.pos
        /\ reader' = IF rec.live THEN "live" ELSE "finished"
        /\ last' = Outcome(rec)
        /\ rows_read' = IF Outcome(rec).kind = "row" THEN n + 1 ELSE n

\* Reader.__next__
ReaderNext ==
    /\ IF file = None
       THEN IF Opened.stop THEN Open("next")
            ELSE /\ file' = "open"
                 /\ ReadNext(Opened.pos, TRUE, 0)
                 /\ returned' = IF last'.kind = "row" THEN 1 ELSE 0
       ELSE /\ UNCHANGED file
            /\ ReadNext(file_pos, reader = "live", rows_read)
            /\ returned' = IF last'.kind = "row" THEN returned + 1 ELSE returned
    /\ UNCHANGED <<cfg, filter_vars, reader_cfg>>

\* Reader.reset: seek(0), rows_read = 0 and the header lines skipped again;
\* self.reader and the generator under it are left as they are
Reset ==
    /\ IF file = None THEN Open("reset")
       ELSE /\ file_pos' = Opened.pos
            /\ rows_read' = 0
            /\ returned' = 0
            /\ last' = [op |-> "reset", kind |-> IF Opened.stop THEN "stop" ELSE "ok",
                        row |-> <<>>]
            /\ UNCHANGED <<file, reader>>
    /\ UNCHANGED <<cfg, filter_vars, reader_cfg>>

\* Reader.__exit__ and _close
Exit ==
    /\ IF file # None
       THEN /\ reader' = None
            /\ file' = None
            /\ file_pos' = 0
       ELSE UNCHANGED <<file, file_pos, reader>>
    /\ last' = [op |-> "exit", kind |-> "ok", row |-> <<>>]
    /\ UNCHANGED <<rows_read, returned, cfg, filter_vars, reader_cfg>>

NextReader == Iter \/ ReaderNext \/ Reset \/ Exit

SpecReader == InitReader /\ [][NextReader]_vars

\* ---------------------------------------------------------------- properties
\* the line with a space in the place of every NUL
NulsAsSpaces(l) == [i \in 1..Len(l) |-> IF l[i] = NUL THEN SP ELSE l[i]]

\* the line without its line terminator
Body(l) == IF l # <<>> /\ l[Len(l)] = LF THEN SubSeq(l, 1, Len(l) - 1) ELSE l

\* every quote character of l is escaped or immediately followed by the delimiter
EveryQuoteSafe(l) ==
    \A i \in 1..Len(l) :
        l[i] = quote_char =>
            \/ (i > 1 /\ l[i - 1] = BSL)
            \/ (i < Len(l) /\ l[i + 1] = delimiter)

Filtered == pc \in {"repaired", "split", "repaired_twice"}

\* the filter sent the line through the parse-and-rewrite path
TookRepairPath ==
    /\ ~QuoteDisabled(quote_char)
    /\ Count(NulsAsSpaces(line), <<quote_char>>) > 0
    /\ ~IsSafe(NulsAsSpaces(line), delimiter, quote_char)

\* C1: a line whose quote characters are all escaped or immediately before
\* the delimiter (in any mix of the two) is returned unchanged apart from the
\* NUL substitution.
C1_SafeLinesUnchanged ==
    (Filtered /\ ~QuoteDisabled(quote_char) /\ EveryQuoteSafe(NulsAsSpaces(line)))
        => out = Ok(NulsAsSpaces(line))

\* C2: applying the filter to its own output returns that output unchanged.
C2_CanonicalStability ==
    pc = "repaired_twice" => out2 = out

\* C3: on the repair path, the field splitter reads from the replacement line
\* exactly the fields a lenient quote-aware reading of the original line gives.
C3_FieldsPreserved ==
    (pc \in {"split", "repaired_twice"} /\ TookRepairPath)
        => fields_out = ReadOneLine(Body(NulsAsSpaces(line)), delimiter, quote_char, FALSE)

\* C4: on the repair path, splitting the returned line under the reader's
\* settings raises no parse error and yields at least one field.
C4_RepairedLineSplits ==
    (pc \in {"split", "repaired_twice"} /\ TookRepairPath)
        => (fields_out.kind = "row" /\ Len(fields_out.fields) >= 1)

C4_Witness ==
    /\ pc = "split"
    /\ TookRepairPath
    /\ strict_delimitation
    /\ out.val # NulsAsSpaces(line)
    /\ fields_out.kind = "row"
    /\ Len(fields_out.fields) >= 2

\* C5 as stated: every NUL of the input is exactly one space at the same
\* position of the output, on the safe path and on the repair path alike, and
\* the output holds no NUL.
C5_NulsBecomeSpacesInPlace ==
    (Filtered /\ ~out.err)
        => /\ ~Contains(out.val, NUL)
           /\ \A i \in 1..Len(line) :
                  line[i] = NUL => (i <= Len(out.val) /\ out.val[i] = SP)

\* C5 amended: the NULs are replaced by spaces before anything else, so the
\* output holds no NUL and the filter does with the line exactly what it does
\* with the same line holding spaces in their place (a NUL causes no error of
\* its own); on a line that is passed through, every NUL is one space at the
\* same position.
C5_NulsReplacedFirst ==
    Filtered
        => /\ ~Contains(out.val, NUL)
           /\ out = NoMultilineQuotedReader_process(NulsAsSpaces(line), delimiter,
                                                    quote_char, strict_delimitation)
           /\ (~TookRepairPath => out = Ok(NulsAsSpaces(line)))

C5_Witness ==
    /\ pc = "repaired"
    /\ Contains(line, NUL)
    /\ TookRepairPath
    /\ ~out.err
    /\ \E i \in 1..Len(line) :
           line[i] = NUL /\ (i > Len(out.val) \/ out.val[i] # SP)

\* C6: with the quote character None or '', the filter returns the line with
\* every NUL replaced by a space and nothing else changed.
C6_DisabledQuotingPassthrough ==
    (Filtered /\ QuoteDisabled(quote_char)) => out = Ok(NulsAsSpaces(line))

C6_Witness ==
    /\ pc = "repaired"
    /\ quote_char = EmptyStr
    /\ Contains(line, DQ)
    /\ Contains(line, NUL)
    /\ line[1] = SP
    /\ out = Ok(NulsAsSpaces(line))

\* C7: a line with no occurrence of the configured quote character is returned
\* with every NUL replaced by a space and nothing else changed.
C7_NoQuotePassthrough ==
    (Filtered /\ ~QuoteDisabled(quote_char) /\ ~Contains(line, quote_char))
        => out = Ok(NulsAsSpaces(line))

C7_Witness ==
    /\ pc = "repaired"
    /\ quote_char = DQ
    /\ ~Contains(line, DQ)
    /\ Contains(line, BSL)
    /\ Contains(line, delimiter)
    /\ Contains(line, NUL)
    /\ line[Len(line)] = SP
    /\ out = Ok(NulsAsSpaces(line))

\* what the first next() of a newly opened Reader does on this file
FirstNext ==
    Outcome(NextRecord(class, contents, Opened.pos, TRUE, delimiter, quote_char,
                       strict_delimitation))

\* C8: reset() leaves rows_read at 0, the next() that follows it does what the
\* first next() on the file does (it returns the first non-header row), and a
\* second reset() in a row changes nothing.
C8_ResetReturnsToStart ==
    [][ /\ (last'.op = "reset" => rows_read' = 0)
        /\ (last.op = "reset" /\ last'.op = "next" => last' = FirstNext)
        /\ (last.op = "reset" /\ last'.op = "reset"
               => UNCHANGED <<file, file_pos, reader, rows_read>>) ]_vars

\* C9: while the Reader is open, rows_read is the number of rows next() has
\* returned since the last open or reset: header lines are not counted, and a
\* next() that ends in StopIteration or an exception does not change it.
C9_RowsReadCountsReturnedRows ==
    file # None => rows_read = returned

C9_Witness ==
    /\ file # None
    /\ number_of_header_lines > 0
    /\ rows_read = 1
    /\ last.op = "next"
    /\ last.kind = "stop"

\* the next() call of this step pulled line i of the file and the fallback
\* parse of its repair raised
RepairFailsOn(i) ==
    /\ last'.op = "next"
    /\ class = "NoMultilineQuotedReader"
    /\ (file # None => reader = "live")
    /\ i >= (IF file = None THEN Opened.pos ELSE file_pos)
    /\ i < file_pos'
    /\ NoMultilineQuotedReader_process(contents[i], delimiter, quote_char,
                                       strict_delimitation).err

\* C10: a next() whose line fails in the fallback parse of the repair raises
\* that error: no row is returned, rows_read is not incremented, and the line
\* is consumed, not read again.
C10_RepairFailureSurfaced ==
    [][ \A i \in 1..Len(contents) :
            RepairFailsOn(i)
                => /\ last'.kind = "error"
                   /\ last'.row = <<>>
                   /\ rows_read' = (IF file = None THEN 0 ELSE rows_read)
                   /\ file_pos' = i + 1
                   /\ reader' = "finished" ]_vars

C10_Witness ==
    /\ file # None
    /\ class = "NoMultilineQuotedReader"
    /\ last = [op |-> "next", kind |-> "error", row |-> <<>>]
    /\ reader = "finished"
    /\ file_pos = Len(contents) + 1
    /\ file_pos > 1
    /\ NoMultilineQuotedReader_process(contents[file_pos - 1], delimiter, quote_char,
                                       strict_delimitation).err
    /\ rows_read = 1

====
